---- MODULE Spec2Model ----
(***************************************************************************)
(* Model of the workflows of devhive-workflows.                            *)
(*                                                                         *)
(*   swarm/graph.ts     createSwarmGraph: the compiled graph, its edges    *)
(*                      and the routers hasMoreWork and needsMoreDev       *)
(*   swarm/nodes.ts     createSwarmNodes: smDraftNode, assignNode,         *)
(*                      devSwarmNode, qaReviewNode, integrateNode          *)
(*   planning/graph.ts  createPlanningGraph and createPlanningNodes:       *)
(*                      analystNode, pmNode, uxNode, architectNode,        *)
(*                      poValidateNode, poShardNode and their routers      *)
(*                                                                         *)
(* Specifications of the swarm workflow:                                   *)
(*   Spec       one graph.invoke(initialState): the nodes run in the       *)
(*              order the compiled graph routes them;                      *)
(*   SpecNodes  the graph, with a caller of the exported smDraftNode       *)
(*              that drafts further backlog stories before assign.         *)
(* Specifications of the planning workflow:                                *)
(*   SpecPlanning       one graph.invoke(initialState);                    *)
(*   SpecPlanningFair   the same, every enabled step eventually taken;     *)
(*   SpecPlanningNodes  an exported node invoked on a planning state of    *)
(*                      the caller, followed by the nodes the graph        *)
(*                      routes to.                                         *)
(*                                                                         *)
(* Story ids are 1..numStories in backlog order, agent ids are 1..n        *)
(* (dev-1 .. dev-n).  Titles, descriptions, acceptance criteria, tasks     *)
(* and file contents only feed the prompts and are left out.  An           *)
(* undefined `dependencies` is the empty set.  A planning artifact is the  *)
(* id of its content, 0 when the slot is undefined.                        *)
(***************************************************************************)
EXTENDS Integers, Sequences, FiniteSets, TLC

\* ---- bounds ------------------------------------------------------------
MaxStories == 2
MaxAgents == 2
MaxDeps == 1
MaxContent == 2
MaxInvalid == 2
MaxShardFailures == 1

\* ---- encodings of undefined --------------------------------------------
NoAgent == 0
NoStory == 0
NoProgress == 0 - 1

\* An id that is the id of no story of any backlog.
DanglingId == MaxStories + 1

StoryIds == 1 .. MaxStories
DepIds == 1 .. DanglingId
DepSets == {S \in SUBSET DepIds : Cardinality(S) <= MaxDeps}

VARIABLES
  storyQueue,        \* SwarmState.storyQueue: Story[]
  activeStories,     \* SwarmState.activeStories: Story[]
  completedStories,  \* SwarmState.completedStories: Story[]
  agents,            \* SwarmState.agents: AgentStatus[]
  codeChanges,       \* SwarmState.codeChanges: CodeChange[]
  testResults,       \* SwarmState.testResults: TestResult[]
  phase,             \* SwarmState.phase
  blockedStories,    \* SwarmState.blockedStories: string[]
  node,              \* the node the graph runs next, "END", "error" or "none"
  running,           \* the node whose fan-out is in flight, or "none"
  calls,             \* the promises of the fan-out in flight, in map order
  doneOrder,         \* indexes of `calls` in the order they settled
  backlog,           \* history: the storyQueue of the initial state
  blockedDeps,       \* history: id -> dependency set draft blocked it on
  wellFormed,        \* history: every generation so far parsed and approved
  hist,              \* history: the fan-in of the step just taken, if any
  aborted,           \* abortSignal.aborted of the controller of the run
  projectBrief,      \* PlanningState.projectBrief: content id, 0 = undefined
  prd,               \* PlanningState.prd
  uxSpec,            \* PlanningState.uxSpec
  architecture,      \* PlanningState.architecture
  epics,             \* PlanningState.epics: the number of epics
  stories,           \* PlanningState.stories: the number of stories
  currentPhase,      \* PlanningState.currentPhase
  validationIssues,  \* PlanningState.validationIssues: string[]
  needsUserInput,    \* PlanningState.needsUserInput
  userMessage,       \* PlanningState.userMessage
  includeUX,         \* PlanningState.includeUX
  pnode,             \* the planning node the graph runs next
  pcall,             \* the planning node awaiting callAgent, or "none"
  runs               \* history: counts of node runs and failed outputs

swarmVars == <<storyQueue, activeStories, completedStories, agents,
               codeChanges, testResults, phase, blockedStories, node,
               running, calls, doneOrder, backlog, blockedDeps, wellFormed,
               hist>>

planningState == <<projectBrief, prd, uxSpec, architecture, epics, stories,
                   currentPhase, validationIssues, needsUserInput,
                   userMessage, includeUX>>

planningVars == <<planningState, pnode, pcall, runs>>

vars == <<swarmVars, aborted, planningVars>>

state == <<storyQueue, activeStories, completedStories, agents, codeChanges,
           testResults, phase, blockedStories>>

\* ---- helpers -------------------------------------------------------------
IdsOf(s) == {s[i].id : i \in DOMAIN s}

StoryIdsOf(s) == {s[i].storyId : i \in DOMAIN s}

Min(a, b) == IF a <= b THEN a ELSE b

\* Array.prototype.find over the indexes I that satisfy the test: the
\* first of them, or 0 when there is none.
FirstIndex(I) ==
  IF I = {} THEN 0 ELSE CHOOSE i \in I : \A j \in I : i <= j

\* s.find((x) => x.id === id), and the same for storyId and agentId.
IndexOfId(s, id) == FirstIndex({n \in DOMAIN s : s[n].id = id})

IndexOfStoryId(s, id) == FirstIndex({n \in DOMAIN s : s[n].storyId = id})

IndexOfAgentId(s, id) == FirstIndex({n \in DOMAIN s : s[n].agentId = id})

Story(i, deps) ==
  [id |-> i, dependencies |-> deps, status |-> "draft",
   assignedAgent |-> NoAgent]

\* hist when the step just taken was not the fan-in of devSwarmNode.
NoFanIn == [from |-> 0, order |-> << >>]

Agent(i) ==
  [id |-> i, status |-> "idle", assignedStory |-> NoStory,
   progress |-> NoProgress]

\* ---- the planning run, before createPlanningGraph is invoked --------------
NoArtifact == 0

NoRuns ==
  [analyst |-> 0, pm |-> 0, invalid |-> 0, shardFailed |-> 0, missing |-> 0]

\* The fields of the planning state that a run starts from.
PlanningStart(ux) ==
  /\ projectBrief = NoArtifact
  /\ prd = NoArtifact
  /\ uxSpec = NoArtifact
  /\ architecture = NoArtifact
  /\ epics = 0
  /\ stories = 0
  /\ currentPhase = "brief"
  /\ validationIssues = << >>
  /\ needsUserInput = FALSE
  /\ userMessage = "idea"
  /\ includeUX = ux
  /\ pcall = "none"
  /\ runs = NoRuns

PlanningNotInvoked == PlanningStart(FALSE) /\ pnode = "none"

\* ---- initial state -------------------------------------------------------
Init ==
  /\ \E n \in 0 .. MaxStories :
       \E deps \in [1 .. n -> DepSets] :
         /\ \A i \in 1 .. n : i \notin deps[i]
         /\ storyQueue = [i \in 1 .. n |-> Story(i, deps[i])]
  /\ \E m \in 1 .. MaxAgents : agents = [i \in 1 .. m |-> Agent(i)]
  /\ activeStories = << >>
  /\ completedStories = << >>
  /\ codeChanges = << >>
  /\ testResults = << >>
  /\ phase = "assign"
  /\ blockedStories = << >>
  /\ node = "sm_draft"
  /\ running = "none"
  /\ calls = << >>
  /\ doneOrder = << >>
  /\ backlog = storyQueue
  /\ blockedDeps = [i \in StoryIds |-> {}]
  /\ wellFormed = TRUE
  /\ hist = NoFanIn
  /\ aborted = FALSE
  /\ PlanningNotInvoked

\* ---- routers of the graph ------------------------------------------------
hasMoreWork(queue, active) ==
  IF Len(queue) > 0 \/ Len(active) > 0 THEN "assign" ELSE "END"

needsMoreDev_every(results) ==
  IF results # << >> /\ \A i \in DOMAIN results : results[i].failed > 0
    THEN "dev_swarm" ELSE "integrate"

needsMoreDev(results) ==
  IF \E i \in DOMAIN results : results[i].failed > 0
    THEN "dev_swarm" ELSE "integrate"

\* ---- smDraftNode ---------------------------------------------------------
isBlocked_sameId(deps, completed) ==
  \E depId \in deps : \A i \in DOMAIN completed : completed[i].id = depId

isBlocked_never(deps, completed) == FALSE

isBlocked(deps, completed) ==
  \E depId \in deps : \A i \in DOMAIN completed : completed[i].id # depId

\* parsed.story.hardDependencies || nextStory.dependencies
\* (an empty array is truthy: it replaces the declared dependencies).
DraftDependencies(hardDefined, hard, declared) ==
  IF hardDefined THEN hard ELSE declared

draftEmpty ==
  /\ storyQueue = << >>
  /\ phase' = "complete"
  /\ node' = "assign"
  /\ hist' = NoFanIn
  /\ UNCHANGED <<aborted, planningVars>>
  /\ UNCHANGED <<storyQueue, activeStories, completedStories, agents,
                 codeChanges, testResults, blockedStories, running, calls,
                 doneOrder, backlog, blockedDeps, wellFormed>>

\* contentGenerator.generateContent rejects: the await is outside the try.
draftThrows ==
  /\ storyQueue # << >>
  /\ node' = "error"
  /\ wellFormed' = FALSE
  /\ hist' = NoFanIn
  /\ UNCHANGED <<aborted, planningVars>>
  /\ UNCHANGED <<state, running, calls, doneOrder, backlog, blockedDeps>>

draftUnparsable_dequeues ==
  /\ storyQueue # << >>
  /\ storyQueue' = Tail(storyQueue)
  /\ phase' = "assign"
  /\ node' = "assign"
  /\ wellFormed' = FALSE
  /\ hist' = NoFanIn
  /\ UNCHANGED <<aborted, planningVars>>
  /\ UNCHANGED <<activeStories, completedStories, agents, codeChanges,
                 testResults, blockedStories, running, calls, doneOrder,
                 backlog, blockedDeps>>

\* JSON.parse throws, or parsed.story is undefined.
draftUnparsable ==
  /\ storyQueue # << >>
  /\ phase' = "assign"
  /\ node' = "assign"
  /\ wellFormed' = FALSE
  /\ hist' = NoFanIn
  /\ UNCHANGED <<aborted, planningVars>>
  /\ UNCHANGED <<storyQueue, activeStories, completedStories, agents,
                 codeChanges, testResults, blockedStories, running, calls,
                 doneOrder, backlog, blockedDeps>>

\* The generated hardDependencies: absent, or one of HardDependencies.
HardDependencies == {{}, {DanglingId}}

draftParsed ==
  /\ storyQueue # << >>
  /\ \E hardDefined \in BOOLEAN, hard \in HardDependencies :
       LET nextStory == Head(storyQueue)
           deps == DraftDependencies(hardDefined, hard, nextStory.dependencies)
           draftedStory == [nextStory EXCEPT !.dependencies = deps,
                                            !.status = "ready"]
       IN /\ (~hardDefined => hard = {})
          /\ storyQueue' = Tail(storyQueue)
          /\ IF isBlocked(deps, completedStories)
               THEN /\ blockedStories' = Append(blockedStories, draftedStory.id)
                    /\ blockedDeps' =
                         [blockedDeps EXCEPT ![nextStory.id] = deps]
                    /\ UNCHANGED activeStories
               ELSE /\ activeStories' = Append(activeStories, draftedStory)
                    /\ UNCHANGED <<blockedStories, blockedDeps>>
          /\ wellFormed' = (wellFormed /\ deps = nextStory.dependencies)
  /\ phase' = "assign"
  /\ node' = "assign"
  /\ hist' = NoFanIn
  /\ UNCHANGED <<aborted, planningVars>>
  /\ UNCHANGED <<completedStories, agents, codeChanges, testResults, running,
                 calls, doneOrder, backlog>>

smDraftNode == draftEmpty \/ draftThrows \/ draftUnparsable \/ draftParsed

Idle == running = "none"

\* ---- assignNode ----------------------------------------------------------
idleAgents_all(ags) == ags

idleAgents(ags) == SelectSeq(ags, LAMBDA a : a.status = "idle")

unassignedStories_all(active) == active

unassignedStories(active) ==
  SelectSeq(active, LAMBDA s : s.assignedAgent = NoAgent)

Assignments_reversed(unassigned, idle) ==
  LET n == Min(Len(unassigned), Len(idle))
  IN [i \in 1 .. n |->
        [storyId |-> unassigned[i].id, agentId |-> idle[n + 1 - i].id]]

\* unassignedStories.slice(0, idleAgents.length).map((story, i) => ...)
Assignments(unassigned, idle) ==
  [i \in 1 .. Min(Len(unassigned), Len(idle)) |->
     [storyId |-> unassigned[i].id, agentId |-> idle[i].id]]

UpdatedStories_unrecorded(active, assignments) == active

UpdatedStories(active, assignments) ==
  [i \in DOMAIN active |->
     LET k == IndexOfStoryId(assignments, active[i].id)
     IN IF k # 0
          THEN [active[i] EXCEPT !.assignedAgent = assignments[k].agentId,
                                 !.status = "in_progress"]
          ELSE active[i]]

AssignedAgents(ags, assignments) ==
  [i \in DOMAIN ags |->
     LET k == IndexOfAgentId(assignments, ags[i].id)
     IN IF k # 0
          THEN [ags[i] EXCEPT !.status = "working",
                              !.assignedStory = assignments[k].storyId,
                              !.progress = 0]
          ELSE ags[i]]

assignSkip ==
  /\ idleAgents(agents) = << >> \/ unassignedStories(activeStories) = << >>
  /\ phase' = "execute"
  /\ node' = "dev_swarm"
  /\ hist' = NoFanIn
  /\ UNCHANGED <<aborted, planningVars>>
  /\ UNCHANGED <<storyQueue, activeStories, completedStories, agents,
                 codeChanges, testResults, blockedStories, running, calls,
                 doneOrder, backlog, blockedDeps, wellFormed>>

assignPair ==
  /\ idleAgents(agents) # << >>
  /\ unassignedStories(activeStories) # << >>
  /\ LET assignments ==
           Assignments(unassignedStories(activeStories), idleAgents(agents))
     IN /\ activeStories' = UpdatedStories(activeStories, assignments)
        /\ agents' = AssignedAgents(agents, assignments)
  /\ phase' = "execute"
  /\ node' = "dev_swarm"
  /\ hist' = NoFanIn
  /\ UNCHANGED <<aborted, planningVars>>
  /\ UNCHANGED <<storyQueue, completedStories, codeChanges, testResults,
                 blockedStories, running, calls, doneOrder, backlog,
                 blockedDeps, wellFormed>>

assignNode == assignSkip \/ assignPair

\* ---- devSwarmNode --------------------------------------------------------
workingAgents(ags) == SelectSeq(ags, LAMBDA a : a.status = "working")

Call(agentId, storyId, st) ==
  [agentId |-> agentId, storyId |-> storyId, st |-> st,
   approved |-> FALSE, failed |-> 0]

AllSettled_some == \E i \in DOMAIN calls : calls[i].st # "pending"

AllSettled == \A i \in DOMAIN calls : calls[i].st # "pending"

\* Promise.all resolves to the results in the order of the promises.
CollectChanges_completionOrder(cs, order) ==
  LET ok == SelectSeq(order, LAMBDA k : cs[k].st = "ok")
  IN [i \in DOMAIN ok |->
        [storyId |-> cs[ok[i]].storyId, agentId |-> cs[ok[i]].agentId,
         status |-> "pending"]]

CollectChanges(cs, order) ==
  LET ok == SelectSeq(cs, LAMBDA c : c.st = "ok")
  IN [i \in DOMAIN ok |->
        [storyId |-> ok[i].storyId, agentId |-> ok[i].agentId,
         status |-> "pending"]]

ReleasedAgents_none(ags, changes) == ags

ReleasedAgents(ags, changes) ==
  [i \in DOMAIN ags |->
     IF \E j \in DOMAIN changes : changes[j].agentId = ags[i].id
       THEN [ags[i] EXCEPT !.status = "idle", !.progress = 100]
       ELSE ags[i]]

devSkip ==
  /\ workingAgents(agents) = << >>
  /\ phase' = "review"
  /\ node' = "qa_review"
  /\ hist' = NoFanIn
  /\ UNCHANGED <<aborted, planningVars>>
  /\ UNCHANGED <<storyQueue, activeStories, completedStories, agents,
                 codeChanges, testResults, blockedStories, running, calls,
                 doneOrder, backlog, blockedDeps, wellFormed>>

\* workingAgents.map(async (agent) => ...): every callback runs to its first
\* await; a callback whose story is not active resolves to null at once.
devDispatch ==
  /\ workingAgents(agents) # << >>
  /\ LET working == workingAgents(agents)
     IN calls' = [i \in DOMAIN working |->
                    Call(working[i].id, working[i].assignedStory,
                         IF IndexOfId(activeStories,
                                      working[i].assignedStory) = 0
                           THEN "null" ELSE "pending")]
  /\ running' = "dev_swarm"
  /\ doneOrder' = << >>
  /\ hist' = NoFanIn
  /\ UNCHANGED <<aborted, planningVars>>
  /\ UNCHANGED <<state, node, backlog, blockedDeps, wellFormed>>

\* One generateContent call resolves; its text parses ("ok") or not ("bad").
devSettle ==
  /\ running = "dev_swarm"
  /\ \E i \in DOMAIN calls, out \in {"ok", "bad"} :
       /\ calls[i].st = "pending"
       /\ calls' = [calls EXCEPT ![i].st = out]
       /\ doneOrder' = Append(doneOrder, i)
       /\ wellFormed' = (wellFormed /\ out = "ok")
  /\ hist' = NoFanIn
  /\ UNCHANGED <<aborted, planningVars>>
  /\ UNCHANGED <<state, node, running, backlog, blockedDeps>>

\* One generateContent call rejects: Promise.all rejects, the node throws.
devThrows ==
  /\ running = "dev_swarm"
  /\ \E i \in DOMAIN calls : calls[i].st = "pending"
  /\ node' = "error"
  /\ running' = "none"
  /\ calls' = << >>
  /\ doneOrder' = << >>
  /\ wellFormed' = FALSE
  /\ hist' = NoFanIn
  /\ UNCHANGED <<aborted, planningVars>>
  /\ UNCHANGED <<state, backlog, blockedDeps>>

devJoin ==
  /\ running = "dev_swarm"
  /\ AllSettled
  /\ LET changes == CollectChanges(calls, doneOrder)
     IN /\ codeChanges' = codeChanges \o changes
        /\ agents' = ReleasedAgents(agents, changes)
        /\ hist' = [from |-> Len(codeChanges),
                    order |-> [i \in DOMAIN doneOrder |->
                                 calls[doneOrder[i]].agentId]]
  /\ phase' = "review"
  /\ node' = "qa_review"
  /\ running' = "none"
  /\ calls' = << >>
  /\ doneOrder' = << >>
  /\ UNCHANGED <<storyQueue, activeStories, completedStories, testResults,
                 blockedStories, backlog, blockedDeps, wellFormed>>
  /\ UNCHANGED <<aborted, planningVars>>

\* ---- qaReviewNode --------------------------------------------------------
pendingChanges(changes) == SelectSeq(changes, LAMBDA c : c.status = "pending")

\* The non-null reviews, in the order of the promises.
Reviews(cs) == SelectSeq(cs, LAMBDA c : c.st = "ok")

\* The TestResult entries of the reviews.  The approved flag the entries
\* carry is read by UpdatedChanges only and is not kept in the channel.
CollectResults(cs) ==
  [i \in DOMAIN Reviews(cs) |->
     [storyId |-> Reviews(cs)[i].storyId, failed |-> Reviews(cs)[i].failed]]

UpdatedChanges_reset(changes, results) ==
  [i \in DOMAIN changes |->
     LET k == IndexOfStoryId(results, changes[i].storyId)
     IN IF k # 0 /\ results[k].approved
          THEN [changes[i] EXCEPT !.status = "reviewed"]
          ELSE [changes[i] EXCEPT !.status = "pending"]]

UpdatedChanges_unapproved(changes, results) ==
  [i \in DOMAIN changes |->
     LET k == IndexOfStoryId(results, changes[i].storyId)
     IN IF k # 0
          THEN [changes[i] EXCEPT !.status = "reviewed"]
          ELSE changes[i]]

\* testResults.find((r) => r?.storyId === change.storyId)?.approved
UpdatedChanges(changes, results) ==
  [i \in DOMAIN changes |->
     LET k == IndexOfStoryId(results, changes[i].storyId)
     IN IF k # 0 /\ results[k].approved
          THEN [changes[i] EXCEPT !.status = "reviewed"]
          ELSE changes[i]]

hasFailures(results) == \E i \in DOMAIN results : results[i].failed > 0

qaSkip ==
  /\ pendingChanges(codeChanges) = << >>
  /\ phase' = "integrate"
  /\ node' = needsMoreDev(testResults)
  /\ hist' = NoFanIn
  /\ UNCHANGED <<aborted, planningVars>>
  /\ UNCHANGED <<storyQueue, activeStories, completedStories, agents,
                 codeChanges, testResults, blockedStories, running, calls,
                 doneOrder, backlog, blockedDeps, wellFormed>>

qaDispatch ==
  /\ pendingChanges(codeChanges) # << >>
  /\ LET pending == pendingChanges(codeChanges)
     IN calls' = [i \in DOMAIN pending |->
                    Call(pending[i].agentId, pending[i].storyId,
                         IF IndexOfId(activeStories, pending[i].storyId) = 0
                           THEN "null" ELSE "pending")]
  /\ running' = "qa_review"
  /\ doneOrder' = << >>
  /\ hist' = NoFanIn
  /\ UNCHANGED <<aborted, planningVars>>
  /\ UNCHANGED <<state, node, backlog, blockedDeps, wellFormed>>

\* One review call resolves: unparsable ("bad"), or a review with its
\* approved flag and its testResults.failed count.
qaSettle ==
  /\ running = "qa_review"
  /\ \E i \in DOMAIN calls, out \in {"ok", "bad"},
        approved \in BOOLEAN, failed \in {0, 1} :
       /\ calls[i].st = "pending"
       /\ (out = "bad" => ~approved /\ failed = 0)
       /\ calls' = [calls EXCEPT ![i].st = out, ![i].approved = approved,
                                 ![i].failed = failed]
       /\ wellFormed' = (wellFormed /\ out = "ok" /\ approved /\ failed = 0)
  /\ hist' = NoFanIn
  /\ UNCHANGED <<aborted, planningVars>>
  /\ UNCHANGED <<state, node, running, doneOrder, backlog, blockedDeps>>

qaThrows ==
  /\ running = "qa_review"
  /\ \E i \in DOMAIN calls : calls[i].st = "pending"
  /\ node' = "error"
  /\ running' = "none"
  /\ calls' = << >>
  /\ doneOrder' = << >>
  /\ wellFormed' = FALSE
  /\ hist' = NoFanIn
  /\ UNCHANGED <<aborted, planningVars>>
  /\ UNCHANGED <<state, backlog, blockedDeps>>

qaJoin ==
  /\ running = "qa_review"
  /\ AllSettled
  /\ LET results == CollectResults(calls)
     IN /\ testResults' = results
        /\ codeChanges' = UpdatedChanges(codeChanges, Reviews(calls))
        /\ phase' = IF hasFailures(results) THEN "execute" ELSE "integrate"
        /\ node' = needsMoreDev(results)
  /\ running' = "none"
  /\ calls' = << >>
  /\ doneOrder' = << >>
  /\ hist' = NoFanIn
  /\ UNCHANGED <<aborted, planningVars>>
  /\ UNCHANGED <<storyQueue, activeStories, completedStories, agents,
                 blockedStories, backlog, blockedDeps, wellFormed>>

\* ---- integrateNode -------------------------------------------------------
reviewedChanges(changes) == SelectSeq(changes, LAMBDA c : c.status = "reviewed")

MergedChanges(changes) ==
  [i \in DOMAIN changes |->
     IF changes[i].status = "reviewed"
       THEN [changes[i] EXCEPT !.status = "merged"]
       ELSE changes[i]]

InSeq(x, s) == \E i \in DOMAIN s : s[i] = x

\* blockedStory.dependencies?.every((depId) =>
\*   [...state.completedStories, ...completedStories]
\*     .some((s) => s.id === depId))
allDepsCompleted(story, completedIds) ==
  \A depId \in story.dependencies : depId \in completedIds

\* The for loop over state.blockedStories: an id with no story in the queue
\* is skipped (continue) and lands in neither list.
Unblocked(queue, blocked, completedIds) ==
  SelectSeq(blocked, LAMBDA b :
    LET k == IndexOfId(queue, b)
    IN k # 0 /\ allDepsCompleted(queue[k], completedIds))

StillBlocked(queue, blocked, completedIds) ==
  SelectSeq(blocked, LAMBDA b :
    LET k == IndexOfId(queue, b)
    IN k # 0 /\ ~allDepsCompleted(queue[k], completedIds))

UpdatedQueue_negated(queue, blocked, unblocked) ==
  SelectSeq(queue, LAMBDA s : ~InSeq(s.id, blocked))
    \o SelectSeq(queue, LAMBDA s : ~InSeq(s.id, unblocked))

UpdatedQueue(queue, blocked, unblocked) ==
  SelectSeq(queue, LAMBDA s : ~InSeq(s.id, blocked))
    \o SelectSeq(queue, LAMBDA s : InSeq(s.id, unblocked))

\* Lines 546-581 as one function of the queue, the blocked list and the
\* completed ids.
Unblock(queue, blocked, completedIds) ==
  [storyQueue |-> UpdatedQueue(queue, blocked,
                               Unblocked(queue, blocked, completedIds)),
   blockedStories |-> StillBlocked(queue, blocked, completedIds)]

\* state.activeStories.filter((s) => !completedStoryIds.includes(s.id))
RemainingActive_none(active, completedStoryIds) == << >>

RemainingActive(active, completedStoryIds) ==
  SelectSeq(active, LAMBDA s : s.id \notin completedStoryIds)

integrateSkip ==
  /\ reviewedChanges(codeChanges) = << >>
  /\ phase' = "complete"
  /\ node' = hasMoreWork(storyQueue, activeStories)
  /\ hist' = NoFanIn
  /\ UNCHANGED <<aborted, planningVars>>
  /\ UNCHANGED <<storyQueue, activeStories, completedStories, agents,
                 codeChanges, testResults, blockedStories, running, calls,
                 doneOrder, backlog, blockedDeps, wellFormed>>

integrateMerge ==
  /\ reviewedChanges(codeChanges) # << >>
  /\ LET completedStoryIds == StoryIdsOf(reviewedChanges(codeChanges))
         completed ==
           LET done == SelectSeq(activeStories,
                                 LAMBDA s : s.id \in completedStoryIds)
           IN [i \in DOMAIN done |-> [done[i] EXCEPT !.status = "completed"]]
         remainingActive == RemainingActive(activeStories, completedStoryIds)
         u == Unblock(storyQueue, blockedStories,
                      IdsOf(completedStories \o completed))
     IN /\ activeStories' = remainingActive
        /\ completedStories' = completedStories \o completed
        /\ codeChanges' = MergedChanges(codeChanges)
        /\ storyQueue' = u.storyQueue
        /\ blockedStories' = u.blockedStories
        /\ phase' = IF Len(u.storyQueue) > 0 \/ Len(remainingActive) > 0
                      THEN "assign" ELSE "complete"
        /\ node' = hasMoreWork(u.storyQueue, remainingActive)
  /\ hist' = NoFanIn
  /\ UNCHANGED <<aborted, planningVars>>
  /\ UNCHANGED <<agents, testResults, running, calls, doneOrder, backlog,
                 blockedDeps, wellFormed>>

integrateNode == integrateSkip \/ integrateMerge

\* ---- the compiled graph (one graph.invoke) -------------------------------
RunDraft == Idle /\ node = "sm_draft" /\ smDraftNode

RunAssign == Idle /\ node = "assign" /\ assignNode

RunDevSwarm == Idle /\ node = "dev_swarm" /\ (devSkip \/ devDispatch)

RunQaReview == Idle /\ node = "qa_review" /\ (qaSkip \/ qaDispatch)

RunIntegrate == Idle /\ node = "integrate" /\ integrateNode

\* abortController.abort() by the holder of the controller.  The nodes
\* receive the signal and never read it or hand it to generateContent.
raiseAbort ==
  /\ ~aborted
  /\ \/ node \notin {"none", "END", "error"}
     \/ pnode \notin {"none", "END", "error"}
  /\ aborted' = TRUE
  /\ UNCHANGED <<swarmVars, planningVars>>

Next ==
  \/ raiseAbort
  \/ RunDraft
  \/ RunAssign
  \/ RunDevSwarm
  \/ devSettle
  \/ devThrows
  \/ devJoin
  \/ RunQaReview
  \/ qaSettle
  \/ qaThrows
  \/ qaJoin
  \/ RunIntegrate

Spec == Init /\ [][Next]_vars

\* The graph always runs the node it routed to, and every generation call
\* in flight settles.
SpecFair == Spec /\ WF_vars(Next)

\* ---- the graph, with a caller that keeps drafting ------------------------
\* A caller of the exported nodes drafts further backlog stories with
\* smDraftNode whenever the graph is about to run assign.
CallDraft == Idle /\ node = "assign" /\ smDraftNode

NextNodes == Next \/ CallDraft

SpecNodes == Init /\ [][NextNodes]_vars

\* ---- integrateNode, called on a state of the caller ----------------------
\* The orders in which the ids of S can be listed.
Orders(S) ==
  {s \in [1 .. Cardinality(S) -> S] :
     \A i, j \in 1 .. Cardinality(S) : i # j => s[i] # s[j]}

\* A caller of the exported integrateNode passes a state in which the
\* blocked stories are still in storyQueue (the state the loop over
\* state.blockedStories looks its stories up in) and the one active story,
\* which is none of them, has a ChangeSet that the review approved or not.
InitIntegrate ==
  /\ \E n \in 1 .. MaxStories :
       \E deps \in [1 .. n -> DepSets] :
         /\ \A i \in 1 .. n : i \notin deps[i]
         /\ storyQueue = [i \in 1 .. n |-> Story(i, deps[i])]
         /\ \E B \in SUBSET {i \in 1 .. n : deps[i] # {}} :
              /\ blockedStories \in Orders(B)
              /\ blockedDeps =
                   [i \in StoryIds |-> IF i \in B THEN deps[i] ELSE {}]
  /\ \E m \in 1 .. MaxAgents :
       agents = [i \in 1 .. m |->
                   IF i = 1
                     THEN [Agent(i) EXCEPT !.assignedStory = DanglingId,
                                           !.progress = 100]
                     ELSE Agent(i)]
  /\ activeStories =
       <<[Story(DanglingId, {}) EXCEPT !.status = "in_progress",
                                       !.assignedAgent = 1]>>
  /\ completedStories = << >>
  /\ \E st \in {"pending", "reviewed"} :
       codeChanges =
         <<[storyId |-> DanglingId, agentId |-> 1, status |-> st]>>
  /\ testResults = <<[storyId |-> DanglingId, failed |-> 0]>>
  /\ phase = "integrate"
  /\ node = "integrate"
  /\ running = "none"
  /\ calls = << >>
  /\ doneOrder = << >>
  /\ backlog = storyQueue
  /\ wellFormed = TRUE
  /\ hist = NoFanIn
  /\ aborted = FALSE
  /\ PlanningNotInvoked

NextIntegrate == RunIntegrate

SpecIntegrate == InitIntegrate /\ [][NextIntegrate]_vars

\* ==== planning/graph.ts ===================================================

\* ---- routers of the planning graph ---------------------------------------
shouldIncludeUX(ux) == IF ux THEN "ux" ELSE "architect"

checkValidation_always(issues) == "pm"

checkValidation_shard(issues) == "po_shard"

checkValidation(issues) == IF Len(issues) > 0 THEN "pm" ELSE "po_shard"

checkComplete_always(ph) == "END"

checkComplete(ph) == IF ph = "complete" THEN "END" ELSE "analyst"

\* ---- callAgent -----------------------------------------------------------
\* The texts a generation call can return, as content ids.
Contents == 1 .. MaxContent

PIdle == pcall = "none"

\* The node reaches `await callAgent(...)`.
callAgent(awaiting) ==
  /\ pcall' = awaiting
  /\ UNCHANGED <<planningState, pnode, runs>>

\* generateContent rejects: callAgent rejects and the node throws.
callAgentThrows ==
  /\ pcall # "none"
  /\ pnode' = "error"
  /\ pcall' = "none"
  /\ UNCHANGED <<planningState, runs>>
  /\ UNCHANGED <<swarmVars, aborted>>

\* A node throws before its first await.
nodeThrows ==
  /\ pnode' = "error"
  /\ runs' = [runs EXCEPT !.missing = @ + 1]
  /\ UNCHANGED <<planningState, pcall>>

\* ---- analystNode ---------------------------------------------------------
analystCall == callAgent("analyst") /\ UNCHANGED <<swarmVars, aborted>>

analystReturn ==
  /\ pcall = "analyst"
  /\ \E briefContent \in Contents : projectBrief' = briefContent
  /\ currentPhase' = "prd"
  /\ needsUserInput' = FALSE
  /\ pnode' = "pm"
  /\ pcall' = "none"
  /\ runs' = [runs EXCEPT !.analyst = @ + 1]
  /\ UNCHANGED <<prd, uxSpec, architecture, epics, stories, validationIssues,
                 userMessage, includeUX>>
  /\ UNCHANGED <<swarmVars, aborted>>

\* ---- pmNode --------------------------------------------------------------
pmMissing(brief) == brief = NoArtifact

pmCall ==
  /\ IF pmMissing(projectBrief) THEN nodeThrows ELSE callAgent("pm")
  /\ UNCHANGED <<swarmVars, aborted>>

pmReturn_clearsArchitecture ==
  /\ pcall = "pm"
  /\ \E prdContent \in Contents : prd' = prdContent
  /\ currentPhase' = IF includeUX THEN "ux" ELSE "architecture"
  /\ pnode' = shouldIncludeUX(includeUX)
  /\ pcall' = "none"
  /\ runs' = [runs EXCEPT !.pm = @ + 1]
  /\ architecture' = NoArtifact
  /\ UNCHANGED <<projectBrief, uxSpec, epics, stories,
                 validationIssues, needsUserInput, userMessage, includeUX>>
  /\ UNCHANGED <<swarmVars, aborted>>

pmReturn ==
  /\ pcall = "pm"
  /\ \E prdContent \in Contents : prd' = prdContent
  /\ currentPhase' = IF includeUX THEN "ux" ELSE "architecture"
  /\ pnode' = shouldIncludeUX(includeUX)
  /\ pcall' = "none"
  /\ runs' = [runs EXCEPT !.pm = @ + 1]
  /\ UNCHANGED <<projectBrief, uxSpec, architecture, epics, stories,
                 validationIssues, needsUserInput, userMessage, includeUX>>
  /\ UNCHANGED <<swarmVars, aborted>>

\* ---- uxNode --------------------------------------------------------------
uxMissing(requirements) == requirements = NoArtifact

uxCall ==
  /\ IF uxMissing(prd) THEN nodeThrows ELSE callAgent("ux")
  /\ UNCHANGED <<swarmVars, aborted>>

uxReturn ==
  /\ pcall = "ux"
  /\ \E uxContent \in Contents : uxSpec' = uxContent
  /\ currentPhase' = "architecture"
  /\ pnode' = "architect"
  /\ pcall' = "none"
  /\ UNCHANGED <<projectBrief, prd, architecture, epics, stories,
                 validationIssues, needsUserInput, userMessage, includeUX,
                 runs>>
  /\ UNCHANGED <<swarmVars, aborted>>

\* ---- architectNode -------------------------------------------------------
architectMissing(requirements) == requirements = NoArtifact

architectCall ==
  /\ IF architectMissing(prd) THEN nodeThrows ELSE callAgent("architect")
  /\ UNCHANGED <<swarmVars, aborted>>

architectReturn_unset ==
  /\ pcall = "architect"
  /\ architecture' = NoArtifact
  /\ currentPhase' = "validation"
  /\ pnode' = "po_validate"
  /\ pcall' = "none"
  /\ UNCHANGED <<projectBrief, prd, uxSpec, epics, stories, validationIssues,
                 needsUserInput, userMessage, includeUX, runs>>
  /\ UNCHANGED <<swarmVars, aborted>>

architectReturn ==
  /\ pcall = "architect"
  /\ \E archContent \in Contents : architecture' = archContent
  /\ currentPhase' = "validation"
  /\ pnode' = "po_validate"
  /\ pcall' = "none"
  /\ UNCHANGED <<projectBrief, prd, uxSpec, epics, stories, validationIssues,
                 needsUserInput, userMessage, includeUX, runs>>
  /\ UNCHANGED <<swarmVars, aborted>>

\* ---- poValidateNode ------------------------------------------------------
\* The texts of the validator: the word alone, a list of issues, and a list
\* of issues in which the word occurs.
ValidationResults == {"VALIDATED", "issues", "issues not validated"}

\* validationResult.trim().toUpperCase().includes('VALIDATED')
isValid(validationResult) ==
  validationResult \in {"VALIDATED", "issues not validated"}

poValidateCall == callAgent("po_validate") /\ UNCHANGED <<swarmVars, aborted>>

poValidateReturn ==
  /\ pcall = "po_validate"
  /\ \E validationResult \in ValidationResults :
       LET issues == IF isValid(validationResult)
                       THEN << >> ELSE <<validationResult>>
       IN /\ ~isValid(validationResult) => runs.invalid < MaxInvalid
          /\ validationIssues' = issues
          /\ currentPhase' =
               IF isValid(validationResult) THEN "sharding" ELSE "prd"
          /\ needsUserInput' = ~isValid(validationResult)
          /\ userMessage' =
               IF isValid(validationResult) THEN userMessage ELSE "issues"
          /\ pnode' = checkValidation(issues)
          /\ runs' = IF isValid(validationResult)
                       THEN runs ELSE [runs EXCEPT !.invalid = @ + 1]
  /\ pcall' = "none"
  /\ UNCHANGED <<projectBrief, prd, uxSpec, architecture, epics, stories,
                 includeUX>>
  /\ UNCHANGED <<swarmVars, aborted>>

\* ---- poShardNode ---------------------------------------------------------
poShardMissing_prd(requirements, arch) == requirements = NoArtifact

poShardMissing(requirements, arch) ==
  requirements = NoArtifact \/ arch = NoArtifact

poShardCall ==
  /\ IF poShardMissing(prd, architecture)
       THEN nodeThrows ELSE callAgent("po_shard")
  /\ UNCHANGED <<swarmVars, aborted>>

\* The numbers of epics a parsed shard output holds.
ShardSizes == {0, 1}

\* JSON.parse succeeds and parsed.epics is an array of epics with stories.
poShardParsed ==
  /\ pcall = "po_shard"
  /\ \E n \in ShardSizes : epics' = n /\ stories' = n
  /\ currentPhase' = "complete"
  /\ pnode' = checkComplete("complete")
  /\ pcall' = "none"
  /\ UNCHANGED <<projectBrief, prd, uxSpec, architecture, validationIssues,
                 needsUserInput, userMessage, includeUX, runs>>
  /\ UNCHANGED <<swarmVars, aborted>>

\* JSON.parse or the mapping of parsed.epics throws: the catch branch.
poShardUnparsable_completes ==
  /\ pcall = "po_shard"
  /\ runs.shardFailed < MaxShardFailures
  /\ validationIssues' = <<"Failed to parse epics/stories">>
  /\ needsUserInput' = TRUE
  /\ currentPhase' = "complete"
  /\ pnode' = checkComplete("complete")
  /\ pcall' = "none"
  /\ runs' = [runs EXCEPT !.shardFailed = @ + 1]
  /\ UNCHANGED <<projectBrief, prd, uxSpec, architecture, epics, stories,
                 userMessage, includeUX>>
  /\ UNCHANGED <<swarmVars, aborted>>

poShardUnparsable ==
  /\ pcall = "po_shard"
  /\ runs.shardFailed < MaxShardFailures
  /\ validationIssues' = <<"Failed to parse epics/stories">>
  /\ needsUserInput' = TRUE
  /\ pnode' = checkComplete(currentPhase)
  /\ pcall' = "none"
  /\ runs' = [runs EXCEPT !.shardFailed = @ + 1]
  /\ UNCHANGED <<projectBrief, prd, uxSpec, architecture, epics, stories,
                 currentPhase, userMessage, includeUX>>
  /\ UNCHANGED <<swarmVars, aborted>>

poShardReturn == poShardParsed \/ poShardUnparsable

\* ---- the compiled planning graph (one graph.invoke) ----------------------
RunAnalyst == PIdle /\ pnode = "analyst" /\ analystCall

RunPm == PIdle /\ pnode = "pm" /\ pmCall

RunUx == PIdle /\ pnode = "ux" /\ uxCall

RunArchitect == PIdle /\ pnode = "architect" /\ architectCall

RunPoValidate == PIdle /\ pnode = "po_validate" /\ poValidateCall

RunPoShard == PIdle /\ pnode = "po_shard" /\ poShardCall

NextPlanning ==
  \/ raiseAbort
  \/ RunAnalyst
  \/ analystReturn
  \/ RunPm
  \/ pmReturn
  \/ RunUx
  \/ uxReturn
  \/ RunArchitect
  \/ architectReturn
  \/ RunPoValidate
  \/ poValidateReturn
  \/ RunPoShard
  \/ poShardReturn
  \/ callAgentThrows

\* The swarm state while no swarm graph is invoked.
SwarmNotInvoked ==
  /\ storyQueue = << >>
  /\ activeStories = << >>
  /\ completedStories = << >>
  /\ agents = << >>
  /\ codeChanges = << >>
  /\ testResults = << >>
  /\ phase = "assign"
  /\ blockedStories = << >>
  /\ node = "none"
  /\ running = "none"
  /\ calls = << >>
  /\ doneOrder = << >>
  /\ backlog = << >>
  /\ blockedDeps = [i \in StoryIds |-> {}]
  /\ wellFormed = TRUE
  /\ hist = NoFanIn

\* runPlanningWorkflow: graph.invoke(initialState), with or without --ux.
InitPlanning ==
  /\ \E ux \in BOOLEAN : PlanningStart(ux)
  /\ pnode = "analyst"
  /\ aborted = FALSE
  /\ SwarmNotInvoked

SpecPlanning == InitPlanning /\ [][NextPlanning]_vars

\* Every awaited generation call settles and every settled node is followed
\* by the node the graph routes to.
SpecPlanningFair == SpecPlanning /\ WF_vars(NextPlanning)

\* ---- the exported planning nodes, called on a state of the caller --------
PlanningNodes ==
  {"analyst", "pm", "ux", "architect", "po_validate", "po_shard"}

Artifacts == 0 .. MaxContent

\* A caller of createPlanningNodes invokes one node on a planning state of
\* its own; the nodes the graph routes to follow.
InitPlanningNodes ==
  /\ projectBrief \in Artifacts
  /\ prd \in Artifacts
  /\ uxSpec \in Artifacts
  /\ architecture \in Artifacts
  /\ epics = 0
  /\ stories = 0
  /\ currentPhase = "brief"
  /\ validationIssues = << >>
  /\ needsUserInput = FALSE
  /\ userMessage = "idea"
  /\ includeUX \in BOOLEAN
  /\ pcall = "none"
  /\ runs = NoRuns
  /\ pnode \in PlanningNodes
  /\ aborted = FALSE
  /\ SwarmNotInvoked

SpecPlanningNodes == InitPlanningNodes /\ [][NextPlanning]_vars

\* ==== properties =========================================================

AgentPos(agentId) == IndexOfId(agents, agentId)

\* C1: every story in completedStories has all the ids of the dependency
\* set it carries in completedStories too.
C1_NoPrematureCompletion ==
  \A i \in DOMAIN completedStories :
    completedStories[i].dependencies \subseteq IdsOf(completedStories)

\* A story with a dependency has completed.
C1_Witness ==
  \E i \in DOMAIN completedStories : completedStories[i].dependencies # {}

\* The backlog [A, B depending on A] with two idle workers.
Scenario ==
  /\ backlog = <<Story(1, {}), Story(2, {1})>>
  /\ Len(agents) = 2

\* C2: in the scenario, with generation that is always well-formed and
\* approving, B is in the blocked set while A is executed, and the run ends
\* with completedStories = {A, B} and no blocked story.
C2_Scenario ==
  (Scenario /\ wellFormed) =>
    /\ (running = "dev_swarm" /\ (\E i \in DOMAIN calls : calls[i].storyId = 1))
         => InSeq(2, blockedStories)
    /\ node = "END"
         => (IdsOf(completedStories) = {1, 2} /\ blockedStories = << >>)

\* C3: no two workers reference the same story, and a worker that
\* references a story is the worker that story records.
C3_AssignmentInjective ==
  /\ \A i, j \in DOMAIN agents :
       (i # j /\ agents[i].assignedStory # NoStory)
         => agents[i].assignedStory # agents[j].assignedStory
  /\ \A i \in DOMAIN agents :
       \A k \in DOMAIN activeStories :
         agents[i].assignedStory = activeStories[k].id
           => activeStories[k].assignedAgent = agents[i].id
  /\ \A i \in DOMAIN agents :
       \A k \in DOMAIN completedStories :
         agents[i].assignedStory = completedStories[k].id
           => completedStories[k].assignedAgent = agents[i].id

\* Two workers hold a story each.
C3_Witness ==
  /\ Len(agents) >= 2
  /\ agents[1].assignedStory # NoStory
  /\ agents[2].assignedStory # NoStory

\* C4: a worker is working iff its assigned story is set, and idle iff it
\* is unset.
C4_StatusIffAssigned ==
  \A i \in DOMAIN agents :
    /\ agents[i].status = "working" <=> agents[i].assignedStory # NoStory
    /\ agents[i].status = "idle" <=> agents[i].assignedStory = NoStory

\* C5: a blocked story stays in blockedStories across every step for as
\* long as one of the dependencies draft blocked it on is not completed.
C5_BlockedStays ==
  [][\A id \in StoryIds :
       (/\ InSeq(id, blockedStories)
        /\ \E d \in blockedDeps[id] : d \notin IdsOf(completedStories'))
         => InSeq(id, blockedStories')]_vars

HasDangling(deps) == \E d \in deps : d \notin IdsOf(backlog)

\* C6: a story drafted with a dependency on the id of no story is blocked,
\* never becomes active or completed, and never leaves blockedStories.
C6_DanglingStaysBlocked ==
  [][/\ \A i \in DOMAIN activeStories' :
          ~HasDangling(activeStories'[i].dependencies)
     /\ \A i \in DOMAIN completedStories' :
          ~HasDangling(completedStories'[i].dependencies)
     /\ \A id \in StoryIds :
          (InSeq(id, blockedStories) /\ HasDangling(blockedDeps[id]))
            => InSeq(id, blockedStories')]_vars

C8_ChangeOrderByRoster ==
  \A i, j \in (hist.from + 1) .. Len(codeChanges) :
    (hist.order # << >> /\ i < j)
      => AgentPos(codeChanges[i].agentId) < AgentPos(codeChanges[j].agentId)

\* Two ChangeSets were appended by a fan-in whose second call settled first.
C8_Witness ==
  /\ hist.order = <<2, 1>>
  /\ Len(codeChanges) = hist.from + 2

\* C9: when a review batch holds a failing result, the node the graph runs
\* after review is dev_swarm (execute), never integrate.
C9_FailureRoutesToExecute ==
  [][(qaJoin /\ hasFailures(testResults')) => node' = "dev_swarm"]_vars

\* review returned a batch with one failing and one passing result and the
\* graph is about to run execute.
C9_Witness ==
  /\ \E i, j \in DOMAIN testResults :
       testResults[i].failed > 0 /\ testResults[j].failed = 0
  /\ phase = "execute"
  /\ node = "dev_swarm"

\* C10: when the generation call of draft fails, the run continues, the
\* backlog is one story shorter and the story is in no other set.
C10_DraftFailureSkips ==
  [][draftThrows =>
       /\ node' # "error"
       /\ Len(storyQueue') = Len(storyQueue) - 1
       /\ Head(storyQueue).id \notin
            IdsOf(activeStories') \cup IdsOf(completedStories')
       /\ ~InSeq(Head(storyQueue).id, blockedStories')]_vars

\* C11: in a planning run whose validator stops reporting issues (at most
\* MaxInvalid failing validations) the requirements phase runs at most once
\* per brief and once more per failing validation, and unless a shard output
\* fails to parse or a generation call rejects, the run reaches END.
C11_ValidationLoopEnds ==
  /\ [](runs.pm <= runs.analyst + runs.invalid)
  /\ <>(pnode = "END" \/ pnode = "error" \/ runs.shardFailed > 0)

\* The run ended after MaxInvalid failing validations and a shard output
\* that parsed.
C11_Witness ==
  /\ pnode = "END"
  /\ runs.invalid = MaxInvalid
  /\ runs.shardFailed = 0

\* CodeChange.status in the order of its lifecycle.
StatusRank(status) ==
  CASE status = "pending" -> 0
    [] status = "reviewed" -> 1
    [] status = "merged" -> 2

\* C12: across every step each ChangeSet keeps its place in codeChanges and
\* its status never moves backward in pending -> reviewed -> merged.
C12_StatusOnlyForward ==
  [][\A i \in DOMAIN codeChanges :
       /\ i \in DOMAIN codeChanges'
       /\ StatusRank(codeChanges'[i].status)
            >= StatusRank(codeChanges[i].status)]_vars

\* A review approved a ChangeSet while an earlier ChangeSet was merged.
C12_Witness ==
  \E i, j \in DOMAIN codeChanges :
    codeChanges[i].status = "merged" /\ codeChanges[j].status = "reviewed"

\* C13: when an execute fan-out ends, every worker whose own generation
\* call succeeded has its ChangeSet appended to codeChanges, whatever
\* happened to the calls of the other workers of the batch.
C13_FailureDoesNotAbortOthers ==
  [][(running = "dev_swarm" /\ running' = "none") =>
       \A i \in DOMAIN calls :
         calls[i].st = "ok" =>
           \E k \in (Len(codeChanges) + 1) .. Len(codeChanges') :
             /\ codeChanges'[k].agentId = calls[i].agentId
             /\ codeChanges'[k].storyId = calls[i].storyId]_vars

\* C14: the fan-in of execute leaves every worker that was working idle
\* with no assigned story, and a worker whose generation failed leaves its
\* story in activeStories without an assigned worker.
C14_ReleaseAfterExecute ==
  [][devJoin =>
       \A i \in DOMAIN agents :
         agents[i].status = "working" =>
           /\ agents'[i].status = "idle"
           /\ agents'[i].assignedStory = NoStory
           /\ (\A k \in DOMAIN calls :
                 (calls[k].agentId = agents[i].id /\ calls[k].st = "bad") =>
                   \E s \in DOMAIN activeStories' :
                     /\ activeStories'[s].id = calls[k].storyId
                     /\ activeStories'[s].assignedAgent = NoAgent)]_vars

\* C15: once the abort signal is raised, no generation call of execute or
\* review that is still in flight settles as a success: it ends as a failed
\* call, for which the fan-in produces no ChangeSet and no ReviewResult.
C15_AbortFailsInFlight ==
  [][aborted =>
       \A i \in DOMAIN calls :
         (calls[i].st = "pending" /\ i \in DOMAIN calls')
           => calls'[i].st \in {"pending", "bad"}]_vars

\* The node about to run lacks an artifact it requires: the brief for pm,
\* the requirements for ux and architect, the requirements or the
\* architecture for po_shard.
PredecessorMissing ==
  \/ pnode = "pm" /\ projectBrief = NoArtifact
  \/ pnode \in {"ux", "architect"} /\ prd = NoArtifact
  \/ pnode = "po_shard" /\ (prd = NoArtifact \/ architecture = NoArtifact)

\* C16: a planning node invoked without a required predecessor artifact
\* throws to the caller, makes no generation call and leaves the planning
\* state unchanged.
C16_MissingArtifactThrows ==
  [][(PIdle /\ PredecessorMissing /\ planningVars' # planningVars) =>
       /\ pnode' = "error"
       /\ pcall' = "none"
       /\ planningState' = planningState]_vars

\* po_shard has thrown on a state that holds the requirements and no
\* architecture.
C16_Witness ==
  /\ pnode = "error"
  /\ runs.missing = 1
  /\ prd # NoArtifact
  /\ architecture = NoArtifact

\* C17: a ChangeSet becomes merged only from reviewed, becomes reviewed
\* only from pending and only in the fan-in of a review whose call for that
\* ChangeSet returned approved, and a story enters completedStories only
\* in the step that merges a reviewed ChangeSet of that story.
C17_ApprovedBeforeMerged ==
  [][/\ \A i \in DOMAIN codeChanges' :
          (/\ codeChanges'[i].status = "merged"
           /\ (i \in DOMAIN codeChanges => codeChanges[i].status # "merged"))
            => (i \in DOMAIN codeChanges
                  /\ codeChanges[i].status = "reviewed")
     /\ \A i \in DOMAIN codeChanges' :
          (/\ codeChanges'[i].status = "reviewed"
           /\ (i \in DOMAIN codeChanges => codeChanges[i].status # "reviewed"))
            => /\ i \in DOMAIN codeChanges
               /\ codeChanges[i].status = "pending"
               /\ running = "qa_review"
               /\ \E k \in DOMAIN calls :
                    /\ calls[k].st = "ok"
                    /\ calls[k].approved
                    /\ calls[k].storyId = codeChanges[i].storyId
                    /\ calls[k].agentId = codeChanges[i].agentId
     /\ \A s \in DOMAIN completedStories' :
          completedStories'[s].id \notin IdsOf(completedStories)
            => \E i \in DOMAIN codeChanges :
                 /\ codeChanges[i].storyId = completedStories'[s].id
                 /\ codeChanges[i].status = "reviewed"
                 /\ codeChanges'[i].status = "merged"]_vars

\* A story is completed and its ChangeSet is merged.
C17_Witness ==
  \E i \in DOMAIN codeChanges :
    /\ codeChanges[i].status = "merged"
    /\ codeChanges[i].storyId \in IdsOf(completedStories)

\* C18: across every step codeChanges and testResults only grow: every
\* ChangeSet stays at its place with its story and worker, and every
\* ReviewResult stays at its place as it was.
C18_AppendOnlyLogs ==
  [][/\ \A i \in DOMAIN codeChanges :
          /\ i \in DOMAIN codeChanges'
          /\ codeChanges'[i].storyId = codeChanges[i].storyId
          /\ codeChanges'[i].agentId = codeChanges[i].agentId
     /\ \A i \in DOMAIN testResults :
          /\ i \in DOMAIN testResults'
          /\ testResults'[i] = testResults[i]]_vars

\* C19: across every step a story id enters storyQueue only by leaving
\* blockedStories, a blocked id does not enter activeStories, an active
\* story stays active or becomes completed, and a completed story stays
\* completed.
C19_StoryLifecycle ==
  [][\A id \in StoryIds :
       /\ (id \in IdsOf(storyQueue') /\ id \notin IdsOf(storyQueue))
            => (InSeq(id, blockedStories) /\ ~InSeq(id, blockedStories'))
       /\ InSeq(id, blockedStories) => id \notin IdsOf(activeStories')
       /\ id \in IdsOf(activeStories)
            => id \in IdsOf(activeStories') \cup IdsOf(completedStories')
       /\ id \in IdsOf(activeStories)
            => id \notin IdsOf(storyQueue')
       /\ id \in IdsOf(completedStories)
            => (id \in IdsOf(completedStories')
                  /\ id \notin IdsOf(activeStories')
                  /\ id \notin IdsOf(storyQueue'))]_vars

\* One story has gone from active to completed, another one is blocked.
C19_Witness ==
  /\ Len(completedStories) > 0
  /\ Len(blockedStories) > 0

\* C20: while a generation call of an execute or review fan-out is in
\* flight, no step changes the swarm state and the graph does not move on
\* to another node (it can only fail): the delta of the batch is published
\* after the last call has settled.
C20_BarrierBeforePublish ==
  [][(\E i \in DOMAIN calls : calls[i].st = "pending") =>
       /\ state' = state
       /\ node' \in {node, "error"}]_vars

\* One call of an execute fan-out has produced its ChangeSet while another
\* call of the batch is still in flight.
C20_Witness ==
  /\ running = "dev_swarm"
  /\ \E i, j \in DOMAIN calls :
       calls[i].st = "ok" /\ calls[j].st = "pending"

\* C21: a shard step that returns is followed by the end of the planning
\* run: the graph never routes from shard back to the brief on its own
\* (the state holds no restart request of the caller).
C21_ShardThenEnd ==
  [][(pcall = "po_shard" /\ pcall' = "none" /\ pnode' # "error")
       => pnode' = "END"]_vars

\* C22: a draft that parsed puts the dequeued story at the end of
\* activeStories when every id of the dependency set it then carries is in
\* completedStories, and otherwise appends its id to blockedStories and
\* keeps it out of activeStories; every active story has all the
\* dependencies it carries completed.
C22_DraftPlacement ==
  [][/\ draftParsed =>
          LET id == Head(storyQueue).id
              last == Len(activeStories')
          IN \/ /\ last = Len(activeStories) + 1
                /\ activeStories'[last].id = id
                /\ activeStories'[last].dependencies
                     \subseteq IdsOf(completedStories)
                /\ blockedStories' = blockedStories
             \/ /\ activeStories' = activeStories
                /\ blockedStories' = Append(blockedStories, id)
                /\ ~(blockedDeps'[id] \subseteq IdsOf(completedStories))
     /\ \A i \in DOMAIN activeStories' :
          activeStories'[i].dependencies \subseteq IdsOf(completedStories')]_vars

\* A story with a dependency is active.
C22_Witness ==
  \E i \in DOMAIN activeStories : activeStories[i].dependencies # {}

\* C23: draft only ever removes the head of storyQueue, and in a run whose
\* generations are all well-formed the whole backlog is eventually
\* dequeued.
C23_BacklogDrained ==
  /\ [][storyQueue' # storyQueue =>
          (storyQueue # << >> /\ storyQueue' = Tail(storyQueue))]_vars
  /\ <>(storyQueue = << >> \/ ~wellFormed)

\* C24: a draft whose generated output cannot be parsed sets the phase tag
\* to assign and changes nothing else of the swarm state; it raises no
\* error and the graph goes on to assign.
C24_UnparsableDraftFrame ==
  [][draftUnparsable =>
       /\ phase' = "assign"
       /\ node' = "assign"
       /\ UNCHANGED <<storyQueue, activeStories, blockedStories,
                      completedStories, agents, codeChanges,
                      testResults>>]_vars

\* The draft of the first story did not parse and the graph is about to
\* run assign with the backlog as it was.
C24_Witness ==
  /\ node = "assign"
  /\ ~wellFormed
  /\ storyQueue # << >>
  /\ storyQueue = backlog

\* The position of active story i among the unassigned stories, and of
\* worker a among the idle workers, in list order.
UnassignedRank(i) ==
  Cardinality({j \in 1 .. i : activeStories[j].assignedAgent = NoAgent})

IdleRank(a) == Cardinality({b \in 1 .. a : agents[b].status = "idle"})

\* Story i and worker a are the two halves of one pair of the assignment.
Paired(i, a) ==
  /\ activeStories[i].assignedAgent = NoAgent
  /\ agents[a].status = "idle"
  /\ UnassignedRank(i) = IdleRank(a)

C26_AssignSkipFrame ==
  [][(/\ assignNode
      /\ \/ \A a \in DOMAIN agents : agents[a].status # "idle"
         \/ \A i \in DOMAIN activeStories :
              activeStories[i].assignedAgent # NoAgent) =>
       /\ phase' = "execute"
       /\ UNCHANGED <<agents, activeStories, storyQueue, completedStories,
                      blockedStories, codeChanges, testResults>>]_vars

\* assign has run with idle workers and no active story.
C26_Witness ==
  /\ node = "dev_swarm"
  /\ phase = "execute"
  /\ activeStories = << >>
  /\ \E a \in DOMAIN agents : agents[a].status = "idle"

\* C27: the execute that the graph runs after a review batch with a
\* failing result dispatches a new generation call for the story of every
\* result of that batch.
C27_FailureReexecutesBatch ==
  [][(RunDevSwarm /\ hasFailures(testResults)) =>
       /\ running' = "dev_swarm"
       /\ \A r \in DOMAIN testResults :
            \E k \in DOMAIN calls' :
              /\ calls'[k].storyId = testResults[r].storyId
              /\ calls'[k].st = "pending"]_vars

\* C28: after an integrate step the phase tag is assign when storyQueue or
\* activeStories is non-empty and complete otherwise, the run ends exactly
\* when the tag is complete, no ChangeSet is left reviewed, and the story
\* of every ChangeSet that was reviewed is completed and not active.
C28_IntegrateOutcome ==
  [][RunIntegrate =>
       /\ phase' = IF Len(storyQueue') > 0 \/ Len(activeStories') > 0
                     THEN "assign" ELSE "complete"
       /\ (node' = "END") <=> (phase' = "complete")
       /\ \A i \in DOMAIN codeChanges :
            codeChanges[i].status = "reviewed" =>
              /\ codeChanges'[i].status = "merged"
              /\ codeChanges[i].storyId \in IdsOf(completedStories')
              /\ codeChanges[i].storyId \notin IdsOf(activeStories')]_vars

\* The blocked ids whose story is in storyQueue with every dependency in
\* the completed set that integrate produces.
UnblockedIds ==
  {b \in StoryIds :
     /\ InSeq(b, blockedStories)
     /\ \E k \in DOMAIN storyQueue :
          /\ storyQueue[k].id = b
          /\ storyQueue[k].dependencies \subseteq IdsOf(completedStories')}

\* C29: the stories that an integrate step with a reviewed ChangeSet
\* unblocks are in the storyQueue it returns ahead of every other story,
\* and their ids are no longer in blockedStories.
C29_UnblockedToFront ==
  [][(/\ RunIntegrate
      /\ \E c \in DOMAIN codeChanges : codeChanges[c].status = "reviewed") =>
       /\ \A b \in UnblockedIds :
            /\ b \in IdsOf(storyQueue')
            /\ ~InSeq(b, blockedStories')
       /\ \A i, j \in DOMAIN storyQueue' :
            (/\ storyQueue'[i].id \in UnblockedIds
             /\ storyQueue'[j].id \notin UnblockedIds) => i < j]_vars


\* C30: a validate step that returns ends in one of two outcomes and never
\* in a mix of them: validationIssues is empty, needsUserInput is false and
\* the next node is po_shard; or validationIssues holds the one text of the
\* validator, needsUserInput is true and the next node is pm.
C30_ValidateOutcome ==
  [][(pcall = "po_validate" /\ pcall' = "none" /\ pnode' # "error") =>
       \/ /\ validationIssues' = << >>
          /\ ~needsUserInput'
          /\ pnode' = "po_shard"
       \/ /\ Len(validationIssues') = 1
          /\ validationIssues'[1] \in ValidationResults
          /\ needsUserInput'
          /\ pnode' = "pm"]_vars

C30_Witness ==
  /\ pnode = "pm"
  /\ pcall = "none"
  /\ runs.invalid = 1
  /\ needsUserInput
  /\ validationIssues = <<"issues">>


\* C31: a shard step whose output cannot be parsed throws nothing: it
\* leaves exactly one validation issue and needsUserInput true, and keeps
\* epics, stories, currentPhase and the four artifacts as they were.
C31_UnparsableShardFrame ==
  [][(pcall = "po_shard" /\ runs'.shardFailed # runs.shardFailed) =>
       /\ pnode' # "error"
       /\ Len(validationIssues') = 1
       /\ needsUserInput'
       /\ UNCHANGED <<epics, stories, currentPhase>>
       /\ UNCHANGED <<projectBrief, prd, uxSpec, architecture>>]_vars

C31_Witness ==
  /\ runs.shardFailed = 1
  /\ pcall = "none"
  /\ pnode = "analyst"
  /\ currentPhase = "sharding"
  /\ needsUserInput
  /\ Len(validationIssues) = 1


\* A generation call of the node n returns and the node publishes its delta.
Returns(n) == pcall = n /\ pcall' = "none" /\ pnode' # "error"

\* C32: analyst, pm, ux and architect each write their own artifact and
\* currentPhase (analyst also needsUserInput) and nothing else: the other
\* artifacts, epics, stories, validationIssues, userMessage and includeUX
\* keep their values, also when pm runs again after a failed validation.
C32_OwnSlotOnly ==
  [][/\ Returns("analyst") =>
          /\ projectBrief' # NoArtifact
          /\ UNCHANGED <<prd, uxSpec, architecture, epics, stories,
                         validationIssues, userMessage, includeUX>>
     /\ Returns("pm") =>
          /\ prd' # NoArtifact
          /\ UNCHANGED <<projectBrief, uxSpec, architecture, epics, stories,
                         validationIssues, needsUserInput, userMessage,
                         includeUX>>
     /\ Returns("ux") =>
          /\ uxSpec' # NoArtifact
          /\ UNCHANGED <<projectBrief, prd, architecture, epics, stories,
                         validationIssues, needsUserInput, userMessage,
                         includeUX>>
     /\ Returns("architect") =>
          /\ architecture' # NoArtifact
          /\ UNCHANGED <<projectBrief, prd, uxSpec, epics, stories,
                         validationIssues, needsUserInput, userMessage,
                         includeUX>>]_vars

\* pm has regenerated the requirements after a failed validation, with the
\* brief, the ux specification and the architecture of the first pass.
C32_Witness ==
  /\ runs.pm = 2
  /\ runs.invalid = 1
  /\ pcall = "none"
  /\ pnode = "ux"
  /\ projectBrief # NoArtifact
  /\ uxSpec # NoArtifact
  /\ architecture # NoArtifact


\* C33: a review step that finds no pending ChangeSet changes phase only,
\* sets it to integrate, and the node that runs next is integrate.
C33_ReviewSkipToIntegrate ==
  [][(RunQaReview /\ pendingChanges(codeChanges) = << >>) =>
       /\ phase' = "integrate"
       /\ UNCHANGED <<storyQueue, activeStories, completedStories, agents,
                      codeChanges, testResults, blockedStories>>
       /\ node' = "integrate"]_vars


\* The run has ended: the graph reached END or a node threw.
Terminated == node \in {"END", "error"}

\* A step that does work: the draft generation, a step that dispatches,
\* settles or joins generation calls, or a step that changes a state
\* channel other than phase.
DoesWork ==
  \/ RunDraft
  \/ calls' # calls
  \/ running' # running
  \/ <<storyQueue, activeStories, completedStories, agents, codeChanges,
       testResults, blockedStories>>' #
     <<storyQueue, activeStories, completedStories, agents, codeChanges,
       testResults, blockedStories>>

\* C34: no run goes on forever with, from some point on, only steps that
\* make no generation call and change nothing but phase: every run either
\* terminates or does work again and again.
C34_NoIdleCycle == ([]<>Terminated) \/ ([]<><<DoesWork>>_vars)


\* C35: when the graph has reached END, blockedStories is empty.
C35_EndWithoutBlocked == node = "END" => blockedStories = << >>


\* C36: every worker with status working holds the id of a story of
\* activeStories whose assignedAgent is that worker.
C36_WorkingHoldsActiveStory ==
  \A a \in DOMAIN agents :
    agents[a].status = "working" =>
      \E s \in DOMAIN activeStories :
        /\ activeStories[s].id = agents[a].assignedStory
        /\ activeStories[s].assignedAgent = agents[a].id

\* A worker is still working after an integrate step has completed the
\* story of another worker.
C36_Witness ==
  /\ \E a \in DOMAIN agents : agents[a].status = "working"
  /\ completedStories # << >>
  /\ node = "assign"


\* C37: codeChanges never holds two ChangeSets of the same story.
C37_OneChangePerStory ==
  \A i, j \in DOMAIN codeChanges :
    codeChanges[i].storyId = codeChanges[j].storyId => i = j

\* Two stories have a ChangeSet each, produced by two executions: the
\* second while the first was already reviewed.
C37_Witness ==
  /\ Len(codeChanges) = 2
  /\ codeChanges[1].status # "pending"
  /\ codeChanges[2].status = "pending"


\* C38: when draft dequeues a story, the dependency set it decides on, which
\* the story carries in activeStories or is blocked on, contains every
\* dependency id the story had in storyQueue.
C38_DeclaredDependenciesKept ==
  [][(RunDraft /\ storyQueue # << >> /\ storyQueue' = Tail(storyQueue)) =>
       LET nextStory == Head(storyQueue)
       IN \/ /\ activeStories' # activeStories
             /\ nextStory.dependencies \subseteq
                  activeStories'[Len(activeStories')].dependencies
          \/ /\ blockedStories' # blockedStories
             /\ nextStory.dependencies \subseteq
                  blockedDeps'[nextStory.id]]_vars


\* C39: in a planning run that starts at analyst, the node about to run
\* never lacks an artifact it requires, and no node has thrown for a
\* missing artifact.
C39_PredecessorsPresent == ~PredecessorMissing /\ runs.missing = 0

\* The run is at po_shard for the second time, after a failed validation
\* and a shard output that did not parse.
C39_Witness ==
  /\ runs.invalid >= 1
  /\ runs.shardFailed = 1
  /\ runs.analyst = 2
  /\ pnode = "po_shard"
  /\ pcall = "po_shard"


\* C40: when the planning graph has reached END, currentPhase is complete,
\* validationIssues is empty, needsUserInput is false, and the brief, the
\* requirements and the architecture are present.
C40_EndIsComplete ==
  pnode = "END" =>
    /\ currentPhase = "complete"
    /\ validationIssues = << >>
    /\ ~needsUserInput
    /\ projectBrief # NoArtifact
    /\ prd # NoArtifact
    /\ architecture # NoArtifact

\* The run has ended after a shard output that did not parse and a restart.
C40_Witness == pnode = "END" /\ runs.shardFailed = 1
====
